---- MODULE Spec2Model ----
(***************************************************************************)
(* A model of src/registry.ts: the identity registry that interns type     *)
(* keys into component identifiers, the three signals wired to every       *)
(* identifier, and the typed facade (component, set, insert, add, remove,  *)
(* get, has, spawn, despawn) over the entity/component Store.              *)
(*                                                                         *)
(* The Store (the ecs World bound to `registry`) and the Signal primitive  *)
(* (./signal) are collaborators whose code is not part of registry.ts;     *)
(* they are modelled from their interface contract (spec sections 4.1 and  *)
(* 6): the definitions named registry_* and createSignal / fire.           *)
(***************************************************************************)
EXTENDS Integers, Sequences, FiniteSets, TLC

\* ------------------------------------------------------------------ bounds

\* Entities the Store hands out before spawn is no longer offered.
MaxEntities == 1
\* Longest bundle / key sequence passed to insert and spawn.
MaxLen == 2
\* Longest run of consecutive set calls the streak observer records.
MaxStreak == 3

\* Coroutines that resolve keys side by side.
MaxTasks == 2

\* ------------------------------------------------------------------ inputs

\* Type keys supplied by callers; Undefined is the absent key (the optional
\* parameter left out).
Keys == {"HP", "Name"}
Undefined == "undefined"
KeyArgs == Keys \cup {Undefined}

\* Plain payloads callers pass as component data.
Payloads == {10, 20}

\* A component value as the Store holds it: nothing (undefined), one plain
\* payload, or an array of payloads (a whole bundle).
Absent == [arr |-> FALSE, items |-> <<>>]
Scalar(v) == [arr |-> FALSE, items |-> <<v>>]
Array(vs) == [arr |-> TRUE, items |-> vs]

SeqsUpTo(S, n) == UNION {[1..m -> S] : m \in 0..n}

\* An optional array argument (bundle?, keys?).
NoArray == [defined |-> FALSE, items |-> <<>>]
SomeArray(s) == [defined |-> TRUE, items |-> s]

EmptyMap == [x \in {} |-> 0]

\* The ids of a set in ascending order.
RECURSIVE SortedSeq(_)
SortedSeq(S) ==
    IF S = {} THEN <<>>
    ELSE LET m == CHOOSE x \in S : \A y \in S : x <= y
         IN <<m>> \o SortedSeq(S \ {m})

\* ------------------------------------------------------------------- state

VARIABLES
    components,  \* Map<string, Id>: type key -> identifier
    idToKey,     \* Map<number, string>: identifier -> type key
    signals,     \* {added, changed, removed}: identifier -> Signal
    registry,    \* the Store (ecs.World)
    signalCount, \* Signal instances created so far; a Signal is its ordinal
    fired,       \* observer: the events fired by the last call, in order
    allocs,      \* observer: registry.component() calls made per type key
    resolved,    \* observer: identifiers component() has returned per key
    call,        \* observer: the last facade call and what held before it
    ret,         \* observer: what the last call returned
    streak,      \* observer: the current run of consecutive set calls
    tagged,      \* observer: <<entity, id>> attached by add, no value set
    tasks,       \* the coroutines calling component(): position and locals
    running      \* the coroutine that holds the thread, 0 when none does

vars == <<components, idToKey, signals, registry, signalCount, fired,
          allocs, resolved, call, ret, streak, tagged, tasks, running>>

\* The program state threaded through one call.
Program ==
    [components |-> components, idToKey |-> idToKey, signals |-> signals,
     registry |-> registry, signalCount |-> signalCount, fired |-> <<>>,
     allocs |-> allocs, resolved |-> resolved]

\* ------------------------------------------------------------------ Signal

NoSignal == 0

\* createSignal(): a fresh Signal instance.
createSignal(P) == [P EXCEPT !.signalCount = @ + 1]

\* signal.fire(entity [, data]): synchronous, in order, unbuffered.
fire(fs, sig, entity, data) ==
    Append(fs, [signal |-> sig, entity |-> entity, data |-> data])

\* ------------------------------------------------------------------- Store

HookNames == {"OnAdd", "OnRemove", "OnSet"}

\* new ecs.World()
registry_new ==
    [nextId |-> 0, nextEntity |-> 0, data |-> EmptyMap, hooks |-> EmptyMap]

\* registry.component(): a new component identifier.
registry_component(w) == [w EXCEPT !.nextId = @ + 1]

\* registry.entity(): a new entity holding nothing.
registry_entity(w) ==
    [w EXCEPT !.nextEntity = @ + 1,
              !.data = @ @@ ((w.nextEntity + 1) :> EmptyMap)]

\* registry.set(id, ecs.OnAdd | ecs.OnRemove | ecs.OnSet, callback): the
\* callback is the closure over one Signal, kept as that Signal.
registry_setHook(w, id, hook, sig) ==
    [w EXCEPT !.hooks = (<<id, hook>> :> sig) @@ @]

\* The Store invoking the hook of an identifier, when one is registered.
invoke_hook(w, fs, id, hook, entity, data) ==
    IF <<id, hook>> \in DOMAIN w.hooks
    THEN fire(fs, w.hooks[<<id, hook>>], entity, data)
    ELSE fs

registry_has(w, entity, id) ==
    entity \in DOMAIN w.data /\ id \in DOMAIN w.data[entity]

registry_get(w, entity, id) ==
    IF registry_has(w, entity, id) THEN w.data[entity][id] ELSE Absent

\* registry.set(entity, id, value): on-add when the identifier is attached
\* by this call, then on-set with the value; on-set alone otherwise.
registry_set(w, fs, entity, id, value) ==
    LET had == registry_has(w, entity, id)
        w2 == [w EXCEPT !.data[entity] = (id :> value) @@ @]
        f1 == IF had THEN fs
              ELSE invoke_hook(w, fs, id, "OnAdd", entity, Absent)
        f2 == invoke_hook(w, f1, id, "OnSet", entity, value)
    IN [registry |-> w2, fired |-> f2]

\* registry.add(entity, id): attaches the identifier without a value;
\* nothing happens when the entity already holds it.
registry_add(w, fs, entity, id) ==
    IF registry_has(w, entity, id)
    THEN [registry |-> w, fired |-> fs]
    ELSE [registry |-> [w EXCEPT !.data[entity] = (id :> Absent) @@ @],
          fired |-> invoke_hook(w, fs, id, "OnAdd", entity, Absent)]

\* registry.remove(entity, id): on-remove when the entity holds it.
registry_remove(w, fs, entity, id) ==
    IF ~registry_has(w, entity, id)
    THEN [registry |-> w, fired |-> fs]
    ELSE [registry |->
              [w EXCEPT !.data[entity] =
                  [i \in DOMAIN @ \ {id} |-> @[i]]],
          fired |-> invoke_hook(w, fs, id, "OnRemove", entity, Absent)]

RECURSIVE remove_all(_, _, _, _)
remove_all(w, fs, entity, ids) ==
    IF ids = <<>> THEN fs
    ELSE remove_all(w, invoke_hook(w, fs, Head(ids), "OnRemove", entity, Absent),
                    entity, Tail(ids))

\* registry.delete(entity): on-remove for every identifier held, then the
\* entity is gone.
registry_delete(w, fs, entity) ==
    [registry |-> [w EXCEPT !.data = [e \in DOMAIN @ \ {entity} |-> @[e]]],
     fired |-> remove_all(w, fs, entity, SortedSeq(DOMAIN w.data[entity]))]

\* ------------------------------------------------------- identity registry

\* added(id) / removed(id): the table lookup signals.added[id]!, which
\* yields undefined (NoSignal) for an identifier the table does not hold.
added(id) ==
    IF id \in DOMAIN signals.added THEN signals.added[id] ELSE NoSignal

removed(id) ==
    IF id \in DOMAIN signals.removed THEN signals.removed[id] ELSE NoSignal

\* signals.changed[id] (the table is exported, there is no accessor).
changed(id) ==
    IF id \in DOMAIN signals.changed THEN signals.changed[id] ELSE NoSignal

\* Slip: the reverse map is never written.
wire_without_reverse(P, w1, key, id, tables, onAdd, onRemove, onSet) ==
    LET P3 == createSignal(createSignal(createSignal(P)))
        w2 == registry_setHook(w1, id, "OnAdd", onAdd)
        w3 == registry_setHook(w2, id, "OnRemove", onRemove)
        w4 == registry_setHook(w3, id, "OnSet", onSet)
    IN [P3 EXCEPT
          !.components = (key :> id) @@ @,
          !.signals = tables,
          !.registry = w4,
          !.allocs[key] = @ + 1]

\* The three Signals and hooks of a new identifier (lines 63-78), as written
\* given the tables and the callbacks' Signals.
wire(P, w1, key, id, tables, onAdd, onRemove, onSet) ==
    LET P3 == createSignal(createSignal(createSignal(P)))
        w2 == registry_setHook(w1, id, "OnAdd", onAdd)
        w3 == registry_setHook(w2, id, "OnRemove", onRemove)
        w4 == registry_setHook(w3, id, "OnSet", onSet)
    IN [P3 EXCEPT
          !.components = (key :> id) @@ @,
          !.idToKey = (id :> key) @@ @,
          !.signals = tables,
          !.registry = w4,
          !.allocs[key] = @ + 1]

\* Slip: the signal tables are rebuilt around the new identifier alone.
mint_resets_signals(P, key) ==
    LET w1 == registry_component(P.registry)
        id == w1.nextId
        n == P.signalCount
    IN wire(P, w1, key, id,
            [added |-> (id :> n + 1), removed |-> (id :> n + 2),
             changed |-> (id :> n + 3)],
            n + 1, n + 2, n + 3)

\* Slip: signals.removed[id] is never stored.
mint_without_removed(P, key) ==
    LET w1 == registry_component(P.registry)
        id == w1.nextId
        n == P.signalCount
    IN wire(P, w1, key, id,
            [added |-> (id :> n + 1) @@ P.signals.added,
             removed |-> P.signals.removed,
             changed |-> (id :> n + 3) @@ P.signals.changed],
            n + 1, n + 2, n + 3)

\* Slip: the OnRemove callback fires addedSignal.
mint_onremove_fires_added(P, key) ==
    LET w1 == registry_component(P.registry)
        id == w1.nextId
        n == P.signalCount
    IN wire(P, w1, key, id,
            [added |-> (id :> n + 1) @@ P.signals.added,
             removed |-> (id :> n + 2) @@ P.signals.removed,
             changed |-> (id :> n + 3) @@ P.signals.changed],
            n + 1, n + 1, n + 3)

\* Slip: the OnSet callback fires addedSignal.
mint_onset_fires_added(P, key) ==
    LET w1 == registry_component(P.registry)
        id == w1.nextId
        n == P.signalCount
    IN wire(P, w1, key, id,
            [added |-> (id :> n + 1) @@ P.signals.added,
             removed |-> (id :> n + 2) @@ P.signals.removed,
             changed |-> (id :> n + 3) @@ P.signals.changed],
            n + 1, n + 2, n + 1)

\* Slip: the hooks capture the signals of the first identifier minted
\* instead of the three just created.
mint_hooks_shared(P, key) ==
    LET w1 == registry_component(P.registry)
        id == w1.nextId
        n == P.signalCount
    IN wire(P, w1, key, id,
            [added |-> (id :> n + 1) @@ P.signals.added,
             removed |-> (id :> n + 2) @@ P.signals.removed,
             changed |-> (id :> n + 3) @@ P.signals.changed],
            1, 2, 3)

\* The creation branch of component(): lines 60-78.
mint(P, key) ==
    LET w1 == registry_component(P.registry)
        id == w1.nextId
        addedSignal == P.signalCount + 1
        removedSignal == P.signalCount + 2
        changedSignal == P.signalCount + 3
    IN wire(P, w1, key, id,
            [added |-> (id :> addedSignal) @@ P.signals.added,
             removed |-> (id :> removedSignal) @@ P.signals.removed,
             changed |-> (id :> changedSignal) @@ P.signals.changed],
            addedSignal, removedSignal, changedSignal)

\* Slip: the memo table is not consulted, every resolution mints.
component_always_mints(P, key) ==
    IF key = Undefined THEN [P |-> P, id |-> 0, err |-> TRUE]
    ELSE LET Q == mint(P, key)
             id == Q.components[key]
         IN [P |-> [Q EXCEPT !.resolved[key] = @ \cup {id}],
             id |-> id, err |-> FALSE]

\* Slip: a mapped key is wired again on every resolution, with three new
\* signals and hooks under the identifier it already has.
component_rewires(P, key) ==
    IF key = Undefined THEN [P |-> P, id |-> 0, err |-> TRUE]
    ELSE LET Q == IF key \in DOMAIN P.components
                  THEN LET id == P.components[key]
                           n == P.signalCount
                       IN [wire(P, P.registry, key, id,
                                [added |-> (id :> n + 1) @@ P.signals.added,
                                 removed |-> (id :> n + 2) @@ P.signals.removed,
                                 changed |-> (id :> n + 3) @@ P.signals.changed],
                                n + 1, n + 2, n + 3)
                           EXCEPT !.allocs = P.allocs]
                  ELSE mint(P, key)
             id == Q.components[key]
         IN [P |-> [Q EXCEPT !.resolved[key] = @ \cup {id}],
             id |-> id, err |-> FALSE]

\* Slip: the identifier is allocated before the key is asserted.
component_asserts_late(P, key) ==
    LET Q == IF key \in DOMAIN P.components THEN P
             ELSE [P EXCEPT !.registry = registry_component(P.registry)]
    IN IF key = Undefined THEN [P |-> Q, id |-> 0, err |-> TRUE]
       ELSE LET R == IF key \in DOMAIN P.components THEN P ELSE mint(P, key)
                id == R.components[key]
            IN [P |-> [R EXCEPT !.resolved[key] = @ \cup {id}],
                id |-> id, err |-> FALSE]

\* component(key): assert(key), then the memoized identifier, minted on the
\* first resolution.  The result is the program state after the call, the
\* identifier returned, and whether the assertion failed.
component(P, key) ==
    IF key = Undefined THEN [P |-> P, id |-> 0, err |-> TRUE]
    ELSE LET Q == IF key \in DOMAIN P.components THEN P ELSE mint(P, key)
             id == Q.components[key]
         IN [P |-> [Q EXCEPT !.resolved[key] = @ \cup {id}],
             id |-> id, err |-> FALSE]

\* ------------------------------------------------------------ typed facade

\* A Store call's outcome put back into the program state.
stored(P, r) == [P EXCEPT !.registry = r.registry, !.fired = r.fired]

Void(P) == [P |-> P, err |-> FALSE]
Failed(P) == [P |-> P, err |-> TRUE]

\* Slip: the identifier is added and the value never handed to the Store.
set_adds(P, entity, value, key) ==
    LET c == component(P, key)
    IN IF c.err THEN Failed(c.P)
       ELSE Void(stored(c.P, registry_add(c.P.registry, c.P.fired,
                                          entity, c.id)))

\* set(entity, value, key)
set(P, entity, value, key) ==
    LET c == component(P, key)
    IN IF c.err THEN Failed(c.P)
       ELSE Void(stored(c.P, registry_set(c.P.registry, c.P.fired,
                                          entity, c.id, value)))

\* Slip: the identifier is set to an absent value instead of added.
add_sets(P, entity, key) ==
    LET c == component(P, key)
    IN IF c.err THEN Failed(c.P)
       ELSE Void(stored(c.P, registry_set(c.P.registry, c.P.fired,
                                          entity, c.id, Absent)))

\* add(entity, key)
add(P, entity, key) ==
    LET c == component(P, key)
    IN IF c.err THEN Failed(c.P)
       ELSE Void(stored(c.P, registry_add(c.P.registry, c.P.fired,
                                          entity, c.id)))

\* Slip: the entity is deleted instead of the one identifier removed.
remove_deletes(P, entity, key) ==
    LET c == component(P, key)
    IN IF c.err THEN Failed(c.P)
       ELSE Void(stored(c.P, registry_delete(c.P.registry, c.P.fired,
                                             entity)))

\* remove(entity, key)
remove(P, entity, key) ==
    LET c == component(P, key)
    IN IF c.err THEN Failed(c.P)
       ELSE Void(stored(c.P, registry_remove(c.P.registry, c.P.fired,
                                             entity, c.id)))

\* Slip: a key that is not mapped is answered without being resolved.
get_peeks(P, entity, key) ==
    IF key \in Keys \ DOMAIN P.components
    THEN [P |-> P, err |-> FALSE, value |-> Absent]
    ELSE LET c == component(P, key)
         IN IF c.err THEN [P |-> c.P, err |-> TRUE, value |-> Absent]
            ELSE [P |-> c.P, err |-> FALSE,
                  value |-> registry_get(c.P.registry, entity, c.id)]

\* get(entity, key)
get(P, entity, key) ==
    LET c == component(P, key)
    IN IF c.err THEN [P |-> c.P, err |-> TRUE, value |-> Absent]
       ELSE [P |-> c.P, err |-> FALSE,
             value |-> registry_get(c.P.registry, entity, c.id)]

\* Slip: has is answered from the value, as get(...) !== undefined.
has_reads_value(P, entity, key) ==
    LET c == component(P, key)
    IN IF c.err THEN [P |-> c.P, err |-> TRUE, bool |-> FALSE]
       ELSE [P |-> c.P, err |-> FALSE,
             bool |-> registry_get(c.P.registry, entity, c.id) # Absent]

\* has(entity, key)
has(P, entity, key) ==
    LET c == component(P, key)
    IN IF c.err THEN [P |-> c.P, err |-> TRUE, bool |-> FALSE]
       ELSE [P |-> c.P, err |-> FALSE,
             bool |-> registry_has(c.P.registry, entity, c.id)]

\* despawn(entity)
despawn(P, entity) ==
    Void(stored(P, registry_delete(P.registry, P.fired, entity)))

\* insert(entity, values, keys): assert(keys), then for every key the
\* identifier is resolved and registry.set is given `values`, the array.
RECURSIVE insert_loop(_, _, _, _)
insert_loop(P, entity, values, keys) ==
    IF keys = <<>> THEN Void(P)
    ELSE LET c == component(P, Head(keys))
         IN IF c.err THEN Failed(c.P)
            ELSE insert_loop(
                   stored(c.P, registry_set(c.P.registry, c.P.fired,
                                            entity, c.id, Array(values))),
                   entity, values, Tail(keys))

insert(P, entity, values, keys) ==
    IF ~keys.defined THEN Failed(P)
    ELSE insert_loop(P, entity, values, keys.items)

\* Slip: the bundle's values are dropped, the identifiers only added.
RECURSIVE spawn_loop_adds(_, _, _, _, _)
spawn_loop_adds(P, entity, bundle, keys, index) ==
    IF index > Len(bundle) - 1 THEN [P |-> P, err |-> FALSE, entity |-> entity]
    ELSE LET key == IF index + 1 \in DOMAIN keys
                    THEN keys[index + 1] ELSE Undefined
             c == component(P, key)
         IN IF c.err THEN [P |-> c.P, err |-> TRUE, entity |-> 0]
            ELSE spawn_loop_adds(
                   stored(c.P, registry_add(c.P.registry, c.P.fired,
                                            entity, c.id)),
                   entity, bundle, keys, index + 1)

\* Slip: the bundle is walked from its last position to its first.
RECURSIVE spawn_loop_reversed(_, _, _, _, _)
spawn_loop_reversed(P, entity, bundle, keys, index) ==
    IF index > Len(bundle) - 1 THEN [P |-> P, err |-> FALSE, entity |-> entity]
    ELSE LET at == Len(bundle) - index
             key == IF at \in DOMAIN keys THEN keys[at] ELSE Undefined
             data == Scalar(bundle[at])
             c == component(P, key)
         IN IF c.err THEN [P |-> c.P, err |-> TRUE, entity |-> 0]
            ELSE spawn_loop_reversed(
                   stored(c.P, registry_set(c.P.registry, c.P.fired,
                                            entity, c.id, data)),
                   entity, bundle, keys, index + 1)

\* The loop of spawn: for index in 0 .. size - 1, keys[index] (undefined
\* past the end of keys) is resolved and bundle[index] is set.
RECURSIVE spawn_loop(_, _, _, _, _)
spawn_loop(P, entity, bundle, keys, index) ==
    IF index > Len(bundle) - 1 THEN [P |-> P, err |-> FALSE, entity |-> entity]
    ELSE LET key == IF index + 1 \in DOMAIN keys
                    THEN keys[index + 1] ELSE Undefined
             data == Scalar(bundle[index + 1])
             c == component(P, key)
         IN IF c.err THEN [P |-> c.P, err |-> TRUE, entity |-> 0]
            ELSE spawn_loop(
                   stored(c.P, registry_set(c.P.registry, c.P.fired,
                                            entity, c.id, data)),
                   entity, bundle, keys, index + 1)

\* spawn(bundle?, keys?)
spawn(P, bundle, keys) ==
    LET w == registry_entity(P.registry)
        entity == w.nextEntity
        Q == [P EXCEPT !.registry = w]
    IN IF keys.defined /\ bundle.defined
       THEN spawn_loop(Q, entity, bundle.items, keys.items, 0)
       ELSE [P |-> Q, err |-> FALSE, entity |-> entity]

\* ---------------------------------------------------------------- observers

NoRet == [err |-> FALSE, id |-> 0, entity |-> 0, value |-> Absent,
          bool |-> FALSE, signal |-> NoSignal]

\* The call being made, with what held just before it: the identifiers the
\* entity held, the keys already mapped, whether the call before it was the
\* same call (same operation, entity and keys) and how many events that one
\* fired.
Call(op, entity, values, keys) ==
    LET same == call.op = op /\ call.entity = entity /\ call.keys = keys
    IN [op |-> op, entity |-> entity, values |-> values, keys |-> keys,
        id |-> 0,
        held |-> IF entity \in DOMAIN registry.data
                 THEN DOMAIN registry.data[entity] ELSE {},
        mapped |-> DOMAIN components,
        again |-> same,
        prevFired |-> IF same THEN Len(fired) ELSE 0]

NoCall == [op |-> "none", entity |-> 0, values |-> NoArray, keys |-> NoArray,
           id |-> 0,
           held |-> {}, mapped |-> {}, again |-> FALSE, prevFired |-> 0]

NoStreak == [entity |-> 0, key |-> Undefined, values |-> <<>>, added |-> 0,
             changed |-> <<>>, fresh |-> FALSE]

\* The events of a call fired by one Signal for one entity.
FiredBy(fs, sig, entity) ==
    SelectSeq(fs, LAMBDA ev : ev.signal = sig /\ ev.entity = entity)

DataOf(fs) == [i \in 1..Len(fs) |-> fs[i].data]

\* The run of consecutive set calls on one entity and key, extended by the
\* call set(entity, value, key) that left program state P.
StreakAfterSet(P, entity, value, key) ==
    LET id == P.components[key]
        cont == /\ streak.entity = entity
                /\ streak.key = key
                /\ Len(streak.values) \in 1..(MaxStreak - 1)
        base == IF cont THEN streak
                ELSE [NoStreak EXCEPT
                        !.entity = entity, !.key = key,
                        !.fresh = ~registry_has(registry, entity, id)]
    IN [base EXCEPT
          !.values = Append(@, value),
          !.added = @ + Len(FiredBy(P.fired, P.signals.added[id], entity)),
          !.changed = @ \o DataOf(FiredBy(P.fired, P.signals.changed[id],
                                          entity))]

\* The identifiers, already minted, that the keys of a call name.
CallIds(P, c) ==
    {P.components[c.keys.items[i]] :
        i \in {j \in 1..Len(c.keys.items) :
                  c.keys.items[j] \in DOMAIN P.components}}

\* The payload-less attachments after call c returned r: add makes one
\* where the entity did not hold the identifier, a set or insert gives it a
\* value, a remove or despawn ends it.
TaggedAfter(P, c, r) ==
    LET pairs == {<<c.entity, id>> : id \in CallIds(P, c)}
    IN IF r.err THEN tagged
       ELSE CASE c.op = "add" ->
                   tagged \cup {pr \in pairs : pr[2] \notin c.held}
              [] c.op \in {"set", "insert", "remove"} -> tagged \ pairs
              [] c.op = "despawn" -> {pr \in tagged : pr[1] # c.entity}
              [] OTHER -> tagged

\* The program state after a call becomes the state.
Returned(P, c, r, s) ==
    /\ tagged' = TaggedAfter(P, c, r)
    /\ components' = P.components
    /\ idToKey' = P.idToKey
    /\ signals' = P.signals
    /\ registry' = P.registry
    /\ signalCount' = P.signalCount
    /\ fired' = P.fired
    /\ allocs' = P.allocs
    /\ resolved' = P.resolved
    /\ call' = c
    /\ ret' = r
    /\ streak' = s

\* A facade call made outside the coroutines.
Commit(P, c, r, s) ==
    /\ Returned(P, c, r, s)
    /\ UNCHANGED <<tasks, running>>

\* ------------------------------------------------------------------ actions

\* The coroutines that call component(), and one that has not called.
Tasks == 1..MaxTasks

NoTask == [pc |-> "idle", key |-> Undefined, found |-> FALSE, id |-> 0,
           raced |-> FALSE]

Entities == DOMAIN registry.data

Init ==
    /\ components = EmptyMap
    /\ idToKey = EmptyMap
    /\ signals = [added |-> EmptyMap, changed |-> EmptyMap,
                  removed |-> EmptyMap]
    /\ registry = registry_new
    /\ signalCount = 0
    /\ fired = <<>>
    /\ allocs = [k \in Keys |-> 0]
    /\ resolved = [k \in Keys |-> {}]
    /\ call = NoCall
    /\ ret = NoRet
    /\ streak = NoStreak
    /\ tagged = {}
    /\ tasks = [t \in Tasks |-> NoTask]
    /\ running = 0

Component ==
    \E key \in KeyArgs :
        LET r == component(Program, key)
        IN Commit(r.P, Call("component", 0, NoArray, SomeArray(<<key>>)),
                  [NoRet EXCEPT !.err = r.err, !.id = r.id], NoStreak)

\* set(entity, value, key) with the value drawn from `payloads`.
SetOf(payloads) ==
    \E entity \in Entities, value \in payloads, key \in KeyArgs :
        LET r == set(Program, entity, Scalar(value), key)
        IN Commit(r.P,
                  Call("set", entity, SomeArray(<<value>>), SomeArray(<<key>>)),
                  [NoRet EXCEPT !.err = r.err],
                  IF r.err THEN NoStreak
                  ELSE StreakAfterSet(r.P, entity, Scalar(value), key))

Set == SetOf(Payloads)

\* insert(entity, values, keys) with up to `len` values from `payloads`.
InsertOf(payloads, len) ==
    \E entity \in Entities, values \in SeqsUpTo(payloads, len),
       keys \in {NoArray} \cup {SomeArray(ks) : ks \in SeqsUpTo(Keys, MaxLen)} :
        LET r == insert(Program, entity, values, keys)
        IN Commit(r.P, Call("insert", entity, SomeArray(values), keys),
                  [NoRet EXCEPT !.err = r.err], NoStreak)

Insert == InsertOf(Payloads, MaxLen)

Add ==
    \E entity \in Entities, key \in KeyArgs :
        LET r == add(Program, entity, key)
        IN Commit(r.P, Call("add", entity, NoArray, SomeArray(<<key>>)),
                  [NoRet EXCEPT !.err = r.err], NoStreak)

Remove ==
    \E entity \in Entities, key \in KeyArgs :
        LET r == remove(Program, entity, key)
        IN Commit(r.P, Call("remove", entity, NoArray, SomeArray(<<key>>)),
                  [NoRet EXCEPT !.err = r.err], NoStreak)

Get ==
    \E entity \in Entities, key \in KeyArgs :
        LET r == get(Program, entity, key)
        IN Commit(r.P, Call("get", entity, NoArray, SomeArray(<<key>>)),
                  [NoRet EXCEPT !.err = r.err, !.value = r.value], NoStreak)

Has ==
    \E entity \in Entities, key \in KeyArgs :
        LET r == has(Program, entity, key)
        IN Commit(r.P, Call("has", entity, NoArray, SomeArray(<<key>>)),
                  [NoRet EXCEPT !.err = r.err, !.bool = r.bool], NoStreak)

\* spawn(bundle, keys) while fewer than `limit` entities were created, the
\* bundle holding up to `len` values from `payloads`.
SpawnOf(limit, payloads, len) ==
    /\ registry.nextEntity < limit
    /\ \E bundle \in {NoArray} \cup
                     {SomeArray(vs) : vs \in SeqsUpTo(payloads, len)},
          keys \in {NoArray} \cup
                   {SomeArray(ks) : ks \in SeqsUpTo(Keys, MaxLen)} :
        LET r == spawn(Program, bundle, keys)
        IN Commit(r.P, Call("spawn", registry.nextEntity + 1, bundle, keys),
                  [NoRet EXCEPT !.err = r.err, !.entity = r.entity], NoStreak)

Spawn == SpawnOf(MaxEntities, Payloads, MaxLen)

Despawn ==
    \E entity \in Entities :
        LET r == despawn(Program, entity)
        IN Commit(r.P, Call("despawn", entity, NoArray, NoArray),
                  [NoRet EXCEPT !.err = r.err], NoStreak)

\* The identifiers a caller may hand to an accessor: those component() can
\* have minted, and one more.
Ids == 1..(Cardinality(Keys) + 1)

\* added(id): returns the table's entry, whatever it is.
Added ==
    \E id \in Ids :
        Commit(Program,
               [Call("added", 0, NoArray, NoArray) EXCEPT !.id = id],
               [NoRet EXCEPT !.signal = added(id)], NoStreak)

\* removed(id)
Removed ==
    \E id \in Ids :
        Commit(Program,
               [Call("removed", 0, NoArray, NoArray) EXCEPT !.id = id],
               [NoRet EXCEPT !.signal = removed(id)], NoStreak)

\* Slip: the coroutine gives up the thread between the lookup and the
\* creation branch.
component_yields_after_lookup(pc) == pc = "looked"

\* Whether component() suspends at a position of its body: it calls nothing
\* that yields, the lookup and the insertion run in one piece.
component_yields(pc) == FALSE

\* A coroutine is scheduled to call component(key).
Start(t) ==
    /\ running = 0
    /\ tasks[t].pc = "idle"
    /\ \E key \in Keys :
          tasks' = [tasks EXCEPT ![t] = [NoTask EXCEPT !.pc = "ready",
                                                       !.key = key]]
    /\ UNCHANGED <<components, idToKey, signals, registry, signalCount, fired,
                   allocs, resolved, call, ret, streak, tagged, running>>

\* Lines 57-58: the key is asserted and looked up into the local `id`.
Lookup(t) ==
    /\ running \in {0, t}
    /\ tasks[t].pc = "ready"
    /\ LET key == tasks[t].key
           found == key \in DOMAIN components
       IN tasks' = [tasks EXCEPT ![t] =
                      [pc |-> "looked", key |-> key, found |-> found,
                       id |-> IF found THEN components[key] ELSE 0,
                       raced |-> /\ ~found
                                 /\ \E u \in Tasks \ {t} :
                                       /\ tasks[u].pc \in {"ready", "looked"}
                                       /\ tasks[u].key = key]]
    /\ running' = IF component_yields("looked") THEN 0 ELSE t
    /\ UNCHANGED <<components, idToKey, signals, registry, signalCount, fired,
                   allocs, resolved, call, ret, streak, tagged>>

\* Lines 59-81: the creation branch when the local `id` is undefined, then
\* the return.
Create(t) ==
    /\ running \in {0, t}
    /\ tasks[t].pc = "looked"
    /\ LET key == tasks[t].key
           Q == IF tasks[t].found THEN Program ELSE mint(Program, key)
           id == IF tasks[t].found THEN tasks[t].id ELSE Q.components[key]
       IN /\ tasks' = [tasks EXCEPT ![t].pc = "returned", ![t].id = id]
          /\ Returned([Q EXCEPT !.resolved[key] = @ \cup {id}],
                      Call("component", 0, NoArray, SomeArray(<<key>>)),
                      [NoRet EXCEPT !.id = id], NoStreak)
    /\ running' = 0

\* The caller has taken the result.
Finish(t) ==
    /\ running = 0
    /\ tasks[t].pc = "returned"
    /\ tasks' = [tasks EXCEPT ![t] = NoTask]
    /\ UNCHANGED <<components, idToKey, signals, registry, signalCount, fired,
                   allocs, resolved, call, ret, streak, tagged, running>>

\* component() called from coroutines that the scheduler runs one at a
\* time, each until it suspends or returns.
NextConcurrent ==
    \E t \in Tasks :
        \/ Start(t)
        \/ Lookup(t)
        \/ Create(t)
        \/ Finish(t)

SpecConcurrent == Init /\ [][NextConcurrent]_vars

\* The whole facade: every exported function is a step.
Next ==
    \/ Component
    \/ Set
    \/ Insert
    \/ Add
    \/ Remove
    \/ Get
    \/ Has
    \/ Spawn
    \/ Despawn
    \/ Added
    \/ Removed

Spec == Init /\ [][Next]_vars

\* One payload, for behaviours with one more entity.
OnePayload == {10}

\* The whole facade over one more entity than Spec has: every exported
\* function is a step, values come from one payload and bundles and value
\* arrays are one shorter, key sequences are as long as in Spec.
NextEntities ==
    \/ Component
    \/ SetOf(OnePayload)
    \/ InsertOf(OnePayload, MaxLen - 1)
    \/ Add
    \/ Remove
    \/ Get
    \/ Has
    \/ SpawnOf(MaxEntities + 1, OnePayload, MaxLen - 1)
    \/ Despawn
    \/ Added
    \/ Removed

SpecEntities == Init /\ [][NextEntities]_vars

\* -------------------------------------------------------------- properties

Range(f) == {f[x] : x \in DOMAIN f}

Ev(sig, entity, data) == [signal |-> sig, entity |-> entity, data |-> data]

\* The events of a call fired by one Signal, for whatever entity.
Events(fs, sig) == SelectSeq(fs, LAMBDA ev : ev.signal = sig)

\* The single key of a call that takes one key.
CallKey == call.keys.items[1]

\* C1: every resolution of a type key, direct or inside a facade operation,
\* returns the same identifier, and the Store allocates an identifier for a
\* key exactly once, at its first resolution.
C1_IdempotentIdentity ==
    /\ \A k \in Keys :
          /\ Cardinality(resolved[k]) <= 1
          /\ allocs[k] = (IF resolved[k] = {} THEN 0 ELSE 1)
          /\ resolved[k] # {} =>
                k \in DOMAIN components /\ resolved[k] = {components[k]}
    /\ (call.op = "component" /\ ~ret.err) => ret.id \in resolved[CallKey]

\* A component(k) call on a key that was already mapped has returned.
C1_Witness ==
    /\ call.op = "component"
    /\ ~ret.err
    /\ CallKey \in call.mapped
    /\ call.again
    /\ ret.id = components[CallKey]
    /\ allocs[CallKey] = 1

\* C2: no step deletes a key from the key-to-identifier table or overwrites
\* its identifier, and no step removes or replaces one of an identifier's
\* three signals.
C2_MonotonicWriteOnce ==
    [][/\ \A k \in DOMAIN components :
             k \in DOMAIN components' /\ components'[k] = components[k]
       /\ \A id \in DOMAIN signals.added :
             id \in DOMAIN signals'.added
             /\ signals'.added[id] = signals.added[id]
       /\ \A id \in DOMAIN signals.changed :
             id \in DOMAIN signals'.changed
             /\ signals'.changed[id] = signals.changed[id]
       /\ \A id \in DOMAIN signals.removed :
             id \in DOMAIN signals'.removed
             /\ signals'.removed[id] = signals.removed[id]]_vars

\* Every key is mapped and an entity holding both identifiers was despawned.
C2_Witness ==
    /\ call.op = "despawn"
    /\ DOMAIN components = Keys
    /\ call.held = Range(components)
    /\ \A id \in Range(components) :
          added(id) # NoSignal /\ changed(id) # NoSignal
          /\ removed(id) # NoSignal

\* An entity holds identifier id.
Used(id) == \E e \in Entities : registry_has(registry, e, id)

Live(sig) == sig # NoSignal /\ sig \in 1..signalCount

\* C3: for every identifier component() has returned, added(id) and
\* removed(id) are live Signals and a changed Signal exists, from the moment
\* component() returns and before any entity uses the identifier.
C3_SignalLiveness ==
    \A k \in Keys : \A id \in resolved[k] :
        Live(added(id)) /\ Live(removed(id)) /\ Live(changed(id))

\* component(k) has just minted an identifier no entity uses yet.
C3_Witness ==
    /\ call.op = "component"
    /\ ~ret.err
    /\ CallKey \notin call.mapped
    /\ Entities # {}
    /\ ~Used(ret.id)
    /\ Live(added(ret.id)) /\ Live(removed(ret.id))

\* A spawn call given both a bundle and keys.
SpawnWithBundle ==
    call.op = "spawn" /\ call.values.defined /\ call.keys.defined

\* The positions such a call has set: the whole bundle, or, when keys is
\* the shorter, the positions before the one whose key is undefined.
SpawnDone ==
    IF Len(call.keys.items) < Len(call.values.items)
    THEN Len(call.keys.items) ELSE Len(call.values.items)

\* Position i is the only one among the first n that carries its key.
OnlyAt(keys, n, i) == \A j \in 1..n : keys[j] = keys[i] => j = i

\* C4: a spawn whose bundle holds value v for a component (one position of
\* the bundle carries that component's key) fires added(id) exactly once,
\* with the new entity, and changed(id) exactly once, with (entity, v);
\* also when this call is the first to resolve the key.
C4_SpawnAddedOnce ==
    SpawnWithBundle =>
        \A i \in 1..SpawnDone :
            OnlyAt(call.keys.items, SpawnDone, i) =>
                /\ call.keys.items[i] \in DOMAIN components
                /\ LET id == components[call.keys.items[i]]
                   IN /\ Events(fired, added(id))
                           = <<Ev(added(id), call.entity, Absent)>>
                      /\ Events(fired, changed(id))
                           = <<Ev(changed(id), call.entity,
                                  Scalar(call.values.items[i]))>>

\* A spawn has set a component whose key it was the first to resolve.
C4_Witness ==
    /\ SpawnWithBundle
    /\ ~ret.err
    /\ ret.entity = call.entity
    /\ \E i \in 1..SpawnDone :
          /\ OnlyAt(call.keys.items, SpawnDone, i)
          /\ call.keys.items[i] \notin call.mapped
          /\ Len(Events(fired, changed(components[call.keys.items[i]]))) = 1

\* C5: remove on an entity holding the identifier fires removed(id) exactly
\* once, with that entity, and nothing else; the identifier is then absent,
\* and a remove that finds it absent fires no signal at all.
C5_RemoveFiresOnce ==
    (call.op = "remove" /\ ~ret.err) =>
        LET id == components[CallKey]
        IN /\ ~registry_has(registry, call.entity, id)
           /\ fired = IF id \in call.held
                      THEN <<Ev(removed(id), call.entity, Absent)>>
                      ELSE <<>>

\* The same remove was called twice in a row: the first fired, the second
\* did not.
C5_Witness ==
    /\ call.op = "remove"
    /\ ~ret.err
    /\ call.again
    /\ call.prevFired = 1
    /\ fired = <<>>

\* C6: despawn of an entity holding the identifiers S fires removed(id)
\* exactly once, with that entity, for every id in S, and fires nothing
\* else.
C6_DespawnCascades ==
    call.op = "despawn" =>
        /\ \A id \in call.held :
              Events(fired, removed(id))
                = <<Ev(removed(id), call.entity, Absent)>>
        /\ Len(fired) = Cardinality(call.held)
        /\ \A i \in 1..Len(fired) :
              fired[i].signal \in {removed(id) : id \in call.held}

\* An entity holding two identifiers was despawned and two different
\* signals fired.
C6_Witness ==
    /\ call.op = "despawn"
    /\ Cardinality(call.held) = 2
    /\ Len(fired) = 2
    /\ fired[1].signal # fired[2].signal

\* The smaller of two lengths.
Min(a, b) == IF a < b THEN a ELSE b

\* C7: insert(entity, values, keys) is set(entity, values[i], keys[i]) for
\* every position i: afterwards the component of keys[i] holds values[i],
\* and changed fired for it with (entity, values[i]).
C7_InsertIsPairwiseSet ==
    (call.op = "insert" /\ ~ret.err) =>
        LET ks == call.keys.items
            vs == call.values.items
            n == Min(Len(ks), Len(vs))
        IN \A i \in 1..n :
              (\A j \in (i + 1)..Len(ks) : ks[j] # ks[i]) =>
                  LET id == components[ks[i]]
                  IN /\ registry_get(registry, call.entity, id) = Scalar(vs[i])
                     /\ \E m \in 1..Len(fired) :
                           fired[m] = Ev(changed(id), call.entity,
                                         Scalar(vs[i]))

\* What insert does: every key's component holds the whole values array.
C7_InsertStoresArray ==
    (call.op = "insert" /\ ~ret.err) =>
        \A i \in 1..Len(call.keys.items) :
            registry_get(registry, call.entity,
                         components[call.keys.items[i]])
              = Array(call.values.items)

\* The identifier of the key of a set call.
SetId == components[CallKey]

\* After set(e, v, k) the Store holds v for e under the identifier of k; a
\* first attachment fires added(e) and then changed(e, v), nothing else.
SetPost ==
    (call.op = "set" /\ ~ret.err) =>
        /\ registry_get(registry, call.entity, SetId)
             = Scalar(call.values.items[1])
        /\ SetId \notin call.held =>
              fired = <<Ev(added(SetId), call.entity, Absent),
                        Ev(changed(SetId), call.entity,
                           Scalar(call.values.items[1]))>>

\* get(e, k) returns what the Store holds for e under the identifier of k.
GetPost ==
    (call.op = "get" /\ ~ret.err) =>
        ret.value = registry_get(registry, call.entity, components[CallKey])

\* What an entity holds under a mapped key changes only in a set or a
\* remove on that entity with that key, or in an insert on that entity
\* whose keys name it (a despawn ends the entity).
ValueFrame ==
    \A e \in Entities \cap DOMAIN registry'.data : \A k \in DOMAIN components :
        registry_get(registry', e, components[k])
            # registry_get(registry, e, components[k])
        => /\ call'.op \in {"set", "remove", "insert"}
           /\ call'.entity = e
           /\ call'.keys.defined
           /\ \E i \in 1..Len(call'.keys.items) : call'.keys.items[i] = k
           /\ call'.op \in {"set", "remove"} => call'.keys.items = <<k>>

\* C8: after set(e, v, k), get(e, k) returns v, the value of the most recent
\* set for that entity and key until a remove or despawn; when e held no
\* component of k before, added fired once with e and changed once with
\* (e, v).
C8_SetThenGet == []SetPost /\ []GetPost /\ [][ValueFrame]_vars

\* A set has attached a component the entity did not hold.
C8_Witness ==
    /\ call.op = "set"
    /\ ~ret.err
    /\ SetId \notin call.held
    /\ Len(fired) = 2
    /\ registry_get(registry, call.entity, SetId)
         = Scalar(call.values.items[1])

\* C9: over n consecutive set calls on one entity and key, changed fires n
\* times, once per call, carrying the values in call order, and added fires
\* once, in the call that attaches the component (not at all when the
\* entity held it before the run).
C9_ChangedPerSet ==
    Len(streak.values) >= 1 =>
        /\ streak.changed = streak.values
        /\ streak.added = (IF streak.fresh THEN 1 ELSE 0)

\* A run of MaxStreak sets that began by attaching the component and did
\* not repeat one value throughout.
C9_Witness ==
    /\ streak.fresh
    /\ Len(streak.values) = MaxStreak
    /\ streak.values[1] # streak.values[2]
    /\ streak.added = 1
    /\ Len(streak.changed) = MaxStreak

\* The keys of a sequence in the order of their first occurrence.
RECURSIVE FirstOccurrences(_)
FirstOccurrences(ks) ==
    IF ks = <<>> THEN <<>>
    ELSE <<Head(ks)>> \o
         FirstOccurrences(SelectSeq(Tail(ks), LAMBDA k : k # Head(ks)))

\* C10: spawn sets the components in sequence order: the added signals of
\* the keys fire once each with the new entity in the order the keys were
\* given, component i is set to bundle[i] (changed fires with it, in that
\* order), and holds it afterwards.
C10_SpawnOrder ==
    SpawnWithBundle =>
        LET n == SpawnDone
            ks == SubSeq(call.keys.items, 1, n)
            firsts == FirstOccurrences(ks)
        IN /\ \A i \in 1..n : ks[i] \in DOMAIN components
           /\ SelectSeq(fired, LAMBDA ev : ev.signal \in Range(signals.added))
                = [i \in 1..Len(firsts) |->
                     Ev(added(components[firsts[i]]), call.entity, Absent)]
           /\ SelectSeq(fired, LAMBDA ev : ev.signal \in Range(signals.changed))
                = [i \in 1..n |->
                     Ev(changed(components[ks[i]]), call.entity,
                        Scalar(call.values.items[i]))]
           /\ \A i \in 1..n :
                 (\A j \in (i + 1)..n : ks[j] # ks[i]) =>
                     registry_get(registry, call.entity, components[ks[i]])
                       = Scalar(call.values.items[i])

\* A spawn has set two different components to two different values.
C10_Witness ==
    /\ SpawnWithBundle
    /\ ~ret.err
    /\ SpawnDone = 2
    /\ call.keys.items[1] # call.keys.items[2]
    /\ call.values.items[1] # call.values.items[2]
    /\ Len(fired) = 4

\* C11: for every entity e and key k with an identifier, has(e, k) is true
\* exactly when get(e, k) is not absent or the identifier is a payload-less
\* tag that was added to e.
C11_GetHasConsistency ==
    \A e \in Entities : \A k \in DOMAIN components :
        has(Program, e, k).bool
          <=> \/ get(Program, e, k).value # Absent
              \/ <<e, components[k]>> \in tagged

\* has answered true for an identifier that was added without a payload,
\* while the entity holds a value under another identifier.
C11_Witness ==
    /\ call.op = "has"
    /\ ~ret.err
    /\ ret.bool
    /\ <<call.entity, components[CallKey]>> \in tagged
    /\ get(Program, call.entity, CallKey).value = Absent
    /\ \E k \in DOMAIN components :
          get(Program, call.entity, k).value # Absent

\* The operations that take one key.
KeyedOps == {"component", "set", "add", "remove", "get", "has"}

\* C12: component, set, add, remove, get and has called with an absent key
\* abort with an error and leave the key map, the reverse map, the signal
\* tables, the Store and every entity's data as they were; nothing fires.
C12_AbsentKeyAborts ==
    [][(call'.op \in KeyedOps /\ call'.keys.items = <<Undefined>>)
         => /\ ret'.err
            /\ UNCHANGED <<components, idToKey, signals, registry,
                           signalCount, allocs, resolved, tagged>>
            /\ fired' = <<>>]_vars

\* set was called with an absent key on an entity that holds a component,
\* and failed.
C12_Witness ==
    /\ call.op = "set"
    /\ CallKey = Undefined
    /\ ret.err
    /\ call.held # {}
    /\ call.entity \in Entities

\* The last call was given a value sequence and a key sequence of
\* different lengths.
Mismatched ==
    /\ call.values.defined
    /\ call.keys.defined
    /\ Len(call.values.items) # Len(call.keys.items)

\* C13: insert and spawn called with a value sequence and a key sequence of
\* different lengths abort with an error instead of completing.
C13_MismatchAborts ==
    (call.op \in {"insert", "spawn"} /\ Mismatched) => ret.err

\* What the code does: spawn fails only when the keys run out before the
\* bundle does, and insert never fails on the lengths.
C13_OnlyShortSpawnKeysAbort ==
    (call.op \in {"insert", "spawn"} /\ Mismatched)
      => (ret.err <=> /\ call.op = "spawn"
                      /\ Len(call.keys.items) < Len(call.values.items))

\* The last call was an accessor given an identifier component() never
\* minted.
UnmintedAccessor ==
    /\ call.op \in {"added", "removed"}
    /\ call.id \notin Range(components)

\* C14: added(id) and removed(id) called with an identifier that was never
\* minted by component() fail with an error; they never return silently.
C14_UnmintedAccessorFails ==
    UnmintedAccessor => ret.err

\* What the code does: the lookup misses and undefined is returned.
C14_UnmintedAccessorReturnsUndefined ==
    UnmintedAccessor => (~ret.err /\ ret.signal = NoSignal)

\* C15: add(entity, k) on an entity that already has the identifier of k
\* changes no entity's data (has and get answer as before) and fires
\* nothing; on an entity without it, it attaches the identifier and fires
\* that identifier's added signal exactly once, and nothing else.
C15_AddIdempotent ==
    [][(call'.op = "add" /\ ~ret'.err)
         => LET e == call'.entity
                k == call'.keys.items[1]
            IN /\ k \in DOMAIN components'
               /\ e \in DOMAIN registry'.data
               /\ components'[k] \in DOMAIN registry'.data[e]
               /\ IF components'[k] \in call'.held
                  THEN /\ registry'.data = registry.data
                       /\ fired' = <<>>
                  ELSE /\ components'[k] \in DOMAIN signals'.added
                       /\ fired' = <<Ev(signals'.added[components'[k]],
                                        e, Absent)>>]_vars

\* The same add was made twice in a row: the first fired added once, the
\* second fired nothing.
C15_Witness ==
    /\ call.op = "add"
    /\ ~ret.err
    /\ call.again
    /\ call.prevFired = 1
    /\ fired = <<>>
    /\ components[CallKey] \in call.held

\* C16: two concurrent resolutions of the same unseen key never mint two
\* identifiers for it: whatever the order in which the coroutines run, calls
\* of component(k) return the same identifier, which is the mapped one, and
\* the Store allocates at most one identifier for k.
C16_ConcurrentResolution ==
    /\ \A t \in Tasks : \A u \in Tasks :
          (/\ tasks[t].pc = "returned"
           /\ tasks[u].pc = "returned"
           /\ tasks[t].key = tasks[u].key)
            => /\ tasks[t].id = tasks[u].id
               /\ tasks[t].key \in DOMAIN components
               /\ components[tasks[t].key] = tasks[t].id
    /\ \A k \in Keys : allocs[k] <= 1 /\ Cardinality(resolved[k]) <= 1

\* Two coroutines were pending on the same unseen key, one looked it up
\* while the other waited, and both have returned.
C16_Witness ==
    \E t \in Tasks : \E u \in Tasks \ {t} :
        /\ tasks[t].pc = "returned"
        /\ tasks[u].pc = "returned"
        /\ tasks[t].key = tasks[u].key
        /\ tasks[t].raced
        /\ ~tasks[t].found
        /\ allocs[tasks[t].key] = 1

\* The call just made named keys, all of them mapped before it.
ResolvedMapped ==
    /\ call'.op \in KeyedOps \cup {"insert", "spawn"}
    /\ call'.keys.defined
    /\ call'.keys.items # <<>>
    /\ \A i \in 1..Len(call'.keys.items) : call'.keys.items[i] \in call'.mapped

\* C17: a call that resolves only keys already mapped allocates no
\* identifier, replaces no signal and registers no hook: the key map, the
\* reverse map, the signal tables, the count of signals made, the Store's
\* identifiers and its hooks stay as they were.  A set through a key resolved
\* before still fires changed exactly once, after one added when the entity
\* did not hold the identifier.
C17_MappedResolutionFrame ==
    [][ResolvedMapped
         => /\ UNCHANGED <<components, idToKey, signals, signalCount, allocs,
                           resolved>>
            /\ registry'.hooks = registry.hooks
            /\ registry'.nextId = registry.nextId
            /\ (call'.op = "set" /\ ~ret'.err)
                 => LET id == components[call'.keys.items[1]]
                    IN /\ Len(Events(fired', signals.changed[id])) = 1
                       /\ Len(fired') = IF id \in call'.held THEN 1 ELSE 2]_vars

\* The same set was made twice in a row on a key that other calls had
\* resolved before, and the second fired changed once.
C17_Witness ==
    /\ call.op = "set"
    /\ ~ret.err
    /\ call.again
    /\ call.prevFired >= 1
    /\ CallKey \in call.mapped
    /\ components[CallKey] \in call.held
    /\ Len(fired) = 1
    /\ Cardinality(DOMAIN components) = Cardinality(Keys)

\* The Store events a call can cause, as <<signal, data given>>: on-add and
\* on-set for the identifiers its keys name, on-remove for the identifiers
\* the entity held.
Channels ==
    LET named == CallIds(Program, call)
    IN CASE call.op = "add" ->
              {<<added(id), FALSE>> : id \in named \ call.held}
         [] call.op \in {"set", "insert", "spawn"} ->
              {<<added(id), FALSE>> : id \in named \ call.held}
                \cup {<<changed(id), TRUE>> : id \in named}
         [] call.op = "remove" ->
              {<<removed(id), FALSE>> : id \in named \cap call.held}
         [] call.op = "despawn" ->
              {<<removed(id), FALSE>> : id \in call.held}
         [] OTHER -> {}

\* The signal tables as one map from <<channel, id>>.
SignalOf(ch, id) ==
    CASE ch = "added" -> added(id)
      [] ch = "changed" -> changed(id)
      [] ch = "removed" -> removed(id)

\* C18: whatever the operations made over the keys and entities, the fires
\* of a call are those of the matching channels only: each is for the
\* call's entity, on the added or changed signal of an identifier the call
\* names or the removed signal of one the entity held, with data on changed
\* alone; and no two channels or identifiers share a signal, so no event of
\* identifier a reaches a signal of another identifier b.
C18_ChannelsIndependent ==
    /\ \A i \in 1..Len(fired) :
          /\ fired[i].entity = call.entity
          /\ <<fired[i].signal, fired[i].data # Absent>> \in Channels
    /\ \A a \in Range(components) : \A b \in Range(components) :
          \A ch \in {"added", "changed", "removed"} :
             \A dh \in {"added", "changed", "removed"} :
                /\ Live(SignalOf(ch, a))
                /\ (SignalOf(ch, a) = SignalOf(dh, b)) => (a = b /\ ch = dh)

\* Two entities held the same two identifiers and one identifier was
\* removed from one of them: the one removed signal fired, for that entity,
\* while the other entity still holds both.
C18_Witness ==
    /\ call.op = "remove"
    /\ ~ret.err
    /\ Cardinality(call.held) = 2
    /\ fired = <<Ev(removed(components[CallKey]), call.entity, Absent)>>
    /\ \E b \in call.held : b # components[CallKey]
    /\ \E other \in Entities \ {call.entity} :
          DOMAIN registry.data[other] = call.held

\* C19: in every reachable state the key map is injective, idToKey is
\* exactly its inverse, and the identifiers having an added, a changed and a
\* removed signal are each the identifiers of the key map.
C19_MapsAgree ==
    /\ \A j \in DOMAIN components : \A k \in DOMAIN components :
          components[j] = components[k] => j = k
    /\ DOMAIN idToKey = Range(components)
    /\ \A k \in DOMAIN components : idToKey[components[k]] = k
    /\ \A id \in DOMAIN idToKey :
          idToKey[id] \in DOMAIN components /\ components[idToKey[id]] = id
    /\ DOMAIN signals.added = Range(components)
    /\ DOMAIN signals.changed = Range(components)
    /\ DOMAIN signals.removed = Range(components)

\* Every key is mapped, by calls of different operations, and an entity
\* holds an identifier.
C19_Witness ==
    /\ DOMAIN components = Keys
    /\ Cardinality(DOMAIN idToKey) = Cardinality(Keys)
    /\ call.op = "add"
    /\ CallKey \notin call.mapped
    /\ \E e \in Entities : registry.data[e] # EmptyMap

\* C20: get, has and remove called with a key not seen before mint an
\* identifier for it in the Store and register its three signals and hooks,
\* the key map growing by that one key, while every entity's components and
\* values stay as they were and nothing fires; get returns absent and has
\* returns false.
C20_ReadsMint ==
    [][(/\ call'.op \in {"get", "has", "remove"}
        /\ call'.keys.items[1] \in Keys \ call'.mapped)
         => LET k == call'.keys.items[1]
                id == registry.nextId + 1
            IN /\ ~ret'.err
               /\ registry'.nextId = id
               /\ components' = (k :> id) @@ components
               /\ idToKey' = (id :> k) @@ idToKey
               /\ allocs'[k] = allocs[k] + 1
               /\ signalCount' = signalCount + 3
               /\ \A tb \in {signals'.added, signals'.changed,
                             signals'.removed} :
                     /\ DOMAIN tb = DOMAIN signals.added \cup {id}
                     /\ tb[id] \in (signalCount + 1)..(signalCount + 3)
               /\ \A h \in HookNames : <<id, h>> \in DOMAIN registry'.hooks
               /\ registry'.data = registry.data
               /\ tagged' = tagged
               /\ fired' = <<>>
               /\ ret'.value = Absent
               /\ ret'.bool = FALSE]_vars

\* get was called with a key nothing had resolved, on an entity that holds
\* a component: the key is mapped now and the answer was absent.
C20_Witness ==
    /\ call.op = "get"
    /\ ~ret.err
    /\ CallKey \in Keys \ call.mapped
    /\ CallKey \in DOMAIN components
    /\ call.held # {}
    /\ registry.data[call.entity] # EmptyMap
    /\ ret.value = Absent

====
